---- MODULE Spec2Model ----
(***************************************************************************)
(* A model of the RFP-Analyst backend (backend/app): dataset upload, the   *)
(* job ledger, the cleaning / EDA / report service pipelines, the          *)
(* run_pipeline endpoint, the report agent and the Gemini REST client.     *)
(*                                                                         *)
(* Specifications:                                                         *)
(*   Spec        the service layer: uploads and concurrent pipeline        *)
(*               invocations over one database and one data directory      *)
(*   SpecReport  ReportAgent (construction, generate_report) and one call  *)
(*               of the Gemini REST client, for every configuration        *)
(*   SpecEda     EDAAgent.run on two threads, for different datasets, one  *)
(*               step per pyplot call group                                *)
(*   SpecClean   the two cleaners, cleaning_tool.run_cleaning and           *)
(*               DataCleaningAgent.run, on every small table               *)
(***************************************************************************)
EXTENDS Integers, Sequences, FiniteSets, TLC

VARIABLES
    datasets,   \* the datasets table: id -> row, or NoRow
    jobs,       \* the jobs table: a sequence of rows, the job id is the index
    fs,         \* the data directory: path -> file content, or NoFile
    procs,      \* the pipeline invocations: one record per worker thread
    lastWrite   \* history: path -> the worker and content of the latest write

svcVars == <<datasets, jobs, fs, procs, lastWrite>>

VARIABLES
    settings,   \* core.config.settings: LLM_PROVIDER, LLM_MODEL, GEMINI_API_KEY
    target,     \* which component the behaviour exercises
    agent,      \* the ReportAgent object and its generate_report call
    llm         \* the GeminiRESTLLM object and its _call

repVars == <<settings, target, agent, llm>>

VARIABLES
    eda,        \* the EDAAgent.run calls: one record per thread
    gcf,        \* matplotlib.pyplot's figures, the last one is the current
    plots       \* the image files written: <<dataset id, chart>> -> content

edaVars == <<eda, gcf, plots>>

VARIABLES
    cl,         \* one call of a cleaner: its input, its locals, its position
    cleanOut    \* CLEAN_DIR/dataset_<id>_clean.parquet as run_cleaning writes it

clVars == <<cl, cleanOut>>

nonSvcVars == <<repVars, edaVars, clVars>>
nonRepVars == <<svcVars, edaVars, clVars>>
nonEdaVars == <<svcVars, repVars, clVars>>
nonClVars == <<svcVars, repVars, edaVars>>

vars == <<svcVars, nonSvcVars>>

-----------------------------------------------------------------------------
(* Bounds of the model                                                     *)

MaxDs      == 2    \* rows the datasets table may hold
MaxTextLen == 2    \* characters of text a provider response may carry
MaxNumCols == 2    \* numeric columns of the tables profiled at one time
MaxRows == 3       \* rows of a table handed to a cleaner

DsIds   == 1..MaxDs

\* Two pipeline invocations per behaviour, each on its own thread: they run
\* one after the other or interleaved step by step.
Workers == {1, 2}

-----------------------------------------------------------------------------
(* Values                                                                  *)

NULL   == "NULL"      \* a NULL column / Python None
NoPath == <<>>        \* a NULL path column
NoFile == <<>>        \* no file at a path; an absent table
NoName == <<"", "">>  \* UploadFile.filename is None or empty
NoRow  == [exists |-> FALSE, name |-> NULL, raw_path |-> NoPath,
           clean_path |-> NoPath, status |-> NULL]

\* Parsed tables an uploaded file may hold, and file contents that do not
\* yield a usable table: a header-only file (an empty table) and bytes the
\* reader rejects.
Tables   == {<<"T1">>, <<"T2">>}
HDR      == <<"HDR">>
BAD      == <<"BAD">>
Contents == Tables \cup {HDR, BAD}

\* Original file names <<stem, suffix>> a client may send.
FileNames == {<<"a", ".csv">>, <<"b", ".xlsx">>, <<"c", ".txt">>}

-----------------------------------------------------------------------------
(* Storage layout                                                          *)

RawPath(name)  == <<"raw", name>>
CleanPath(id)  == <<"clean", "dataset", id, "clean.parquet">>
EdaDir(id)     == <<"eda", "dataset", id>>
ReportPath(id) == <<"reports", "dataset", id, "eda_report.md">>

Suffix(path) == path[2][2]

Paths == {RawPath(n) : n \in FileNames \cup {<<"uploaded_file", "">>}}
         \cup {CleanPath(i) : i \in DsIds} \cup {EdaDir(i) : i \in DsIds}
         \cup {ReportPath(i) : i \in DsIds}

WriteFile(f, path, content) == [f EXCEPT ![path] = content]
Unlink(f, path)             == [f EXCEPT ![path] = NoFile]

-----------------------------------------------------------------------------
(* ingestion_service                                                       *)

OriginalName(filename) ==
    IF filename = NoName THEN <<"uploaded_file", "">> ELSE filename

\* save_uploaded_file: the destination is the original name, an existing
\* file of that name is truncated and rewritten.
SaveUploadedFile(f, filename, content) ==
    WriteFile(f, RawPath(OriginalName(filename)), content)

\* sqlite INTEGER PRIMARY KEY without AUTOINCREMENT: max(rowid) + 1.
Max(S) == CHOOSE x \in S : \A y \in S : y <= x
UsedIds == {i \in DsIds : datasets[i].exists}
NextDsId == IF UsedIds = {} THEN 1 ELSE Max(UsedIds) + 1

RegisterDataset(name, raw_path) ==
    [exists |-> TRUE, name |-> name, raw_path |-> raw_path,
     clean_path |-> NoPath, status |-> "uploaded"]

\* load_dataset_raw: [ok, df, err]
LoadDatasetRaw(f, raw_path) ==
    IF Suffix(raw_path) \in {".csv", ".xlsx", ".xls"}
    THEN IF f[raw_path] = NoFile
         THEN [ok |-> FALSE, df |-> NoFile, err |-> "FileNotFoundError"]
         ELSE IF f[raw_path] = BAD
         THEN [ok |-> FALSE, df |-> NoFile, err |-> "ParserError"]
         ELSE [ok |-> TRUE, df |-> f[raw_path], err |-> NULL]
    ELSE [ok |-> FALSE, df |-> NoFile, err |-> "Unsupported file type"]

\* basic_validate_df
BasicValidateDf(df) == df # HDR

-----------------------------------------------------------------------------
(* pipeline_service: the job ledger                                        *)

\* create_job: the new row
NewJob(dataset_id, job_type) ==
    [dataset_id |-> dataset_id, type |-> job_type, status |-> "pending",
     log |-> <<"Job created.">>, report_path |-> NoPath]

\* Variant of update_job_status that assigns the log argument to the log
\* column instead of appending it.
UpdateJobRowOverwritingLog(job, status, log, report_path) ==
    [job EXCEPT
        !.status = status,
        !.log = IF log # <<>> THEN log ELSE @,
        !.report_path = IF report_path # NoPath THEN report_path ELSE @]

\* update_job_status on one row; log is a sequence of lines, <<>> for an
\* absent or empty log argument, report_path is NoPath when not passed.
UpdateJobRow(job, status, log, report_path) ==
    [job EXCEPT
        !.status = status,
        !.log = IF log # <<>> THEN (IF @ # <<>> THEN @ \o log ELSE log) ELSE @,
        !.report_path = IF report_path # NoPath THEN report_path ELSE @]

UpdateJobStatus(js, id, status, log, report_path) ==
    [js EXCEPT ![id] = UpdateJobRow(@, status, log, report_path)]

\* DataCleaningAgent.run as seen by the service layer: the cleaned table and
\* its log are functions of the raw table (the cleaners themselves are
\* modelled on concrete tables below).
AgentClean(df)    == <<"cleaned">> \o df
AgentCleanLog(df) == <<"cleaning log">> \o df

\* EDAAgent.run as seen by the service layer: the artifacts written under
\* the output directory, a function of the table profiled.
EdaArtifacts(df) == <<"eda of">> \o df
EdaLog(df)       == <<"eda log">> \o df

-----------------------------------------------------------------------------
(* Worker threads                                                          *)

Kinds == {"cleaning", "eda", "report", "full"}

IdleProc ==
    [pc |-> "idle", kind |-> NULL, ds |-> 0, job |-> 0, df |-> NoFile,
     err |-> NULL, wroteDs |-> FALSE, stages |-> <<>>]

Ended(p) == procs[p].pc \in {"returned", "raised"}

Raise(p, e) == [procs EXCEPT ![p].pc = "raised", ![p].err = e]
Goto(p, l)  == [procs EXCEPT ![p].pc = l]

-----------------------------------------------------------------------------
SvcInit ==
    /\ datasets = [i \in DsIds |-> NoRow]
    /\ jobs = <<>>
    /\ fs = [p \in Paths |-> NoFile]
    /\ procs = [p \in Workers |-> IdleProc]
    /\ lastWrite = [p \in Paths |-> [by |-> 0, content |-> NoFile]]

\* class Settings, the defaults
DefaultSettings ==
    [LLM_PROVIDER |-> "none", LLM_MODEL |-> "gemini-2.5-flash-lite",
     GEMINI_API_KEY |-> NULL, genai |-> TRUE]

NoAgent ==
    [pc |-> "new", provider |-> NULL, model_name |-> NULL,
     gemini_model |-> NULL, eda |-> <<>>, calls |-> <<>>, out |-> NULL,
     text |-> <<>>, exc |-> NULL, raised |-> FALSE, result |-> <<>>]

NoLlm ==
    [pc |-> "new", model |-> NULL, api_key |-> NULL, requests |-> <<>>,
     statuses |-> <<>>, body |-> NULL, exc |-> NULL, text |-> <<>>]

RepQuiet ==
    /\ settings = DefaultSettings
    /\ target = "service"
    /\ agent = NoAgent
    /\ llm = NoLlm

\* The tables profiled: their numeric columns, in column order.
NumColNames == [i \in 1..MaxNumCols |-> <<"n", i>>]

EdaThreads == {1, 2}

\* sep: the name of the table's first numeric column holds a path separator
NoEda ==
    [pc |-> "start", ds |-> 0, num |-> 0, sep |-> FALSE, idx |-> 1,
     log |-> <<>>, hist_paths |-> <<>>, corr_path |-> NoPath,
     missing_plot |-> NoPath, err |-> NULL]

AllCharts ==
    {<<"correlation_matrix">>, <<"missing_values">>}
        \cup {<<"hist">> \o NumColNames[i] : i \in 1..MaxNumCols}

EdaQuiet ==
    /\ eda = [t \in EdaThreads |-> NoEda]
    /\ gcf = <<>>
    /\ plots = [k \in EdaThreads \X AllCharts |-> {}]

\* Cell values.  A number is the fraction n/d; NaN and None are the missing
\* values of float64 and object columns.
Num(n, d) == [k |-> "num", n |-> n, d |-> d, s |-> ""]
Str(s) == [k |-> "str", n |-> 0, d |-> 0, s |-> s]
NaN == [k |-> "nan", n |-> 0, d |-> 0, s |-> ""]
None == [k |-> "none", n |-> 0, d |-> 0, s |-> ""]

NoTable == [columns |-> <<>>, dtypes |-> <<>>, rows |-> <<>>]

NoMetadata == [rows_before |-> 0, rows_after |-> 0, cols |-> 0]

NoCl ==
    [pc |-> "idle", cleaner |-> NULL, dataset_id |-> 0, input |-> NoTable,
     df |-> NoTable, log |-> <<>>, metadata |-> NoMetadata, err |-> NULL]

ClQuiet ==
    /\ cl = NoCl
    /\ cleanOut = [i \in DsIds |-> NoTable]

Init == SvcInit /\ RepQuiet /\ EdaQuiet /\ ClQuiet

-----------------------------------------------------------------------------
(* routes_datasets.upload_dataset: an async handler without awaits, one    *)
(* step of the event loop.                                                 *)

UploadDataset(filename, content, name) ==
    /\ NextDsId \in DsIds
    /\ LET raw_path == RawPath(OriginalName(filename))
           saved    == SaveUploadedFile(fs, filename, content)
           id       == NextDsId
           loaded   == LoadDatasetRaw(saved, raw_path)
       IN  IF loaded.ok /\ BasicValidateDf(loaded.df)
           THEN /\ fs' = saved
                /\ datasets' = [datasets EXCEPT
                                   ![id] = RegisterDataset(name, raw_path)]
           ELSE \* Path(ds.raw_path).unlink(missing_ok=True); db.delete(ds)
                /\ fs' = Unlink(saved, raw_path)
                /\ datasets' = datasets
    /\ UNCHANGED <<jobs, procs, lastWrite, nonSvcVars>>

Upload ==
    \E filename \in FileNames \cup {NoName}, content \in Contents :
        UploadDataset(filename, content, "ds")

-----------------------------------------------------------------------------
(* pipeline_service and routes_datasets.run_full_pipeline_api, one step    *)
(* per database commit, file operation or stage.                           *)

\* Variant of the entry in which run_eda_pipeline and run_report_pipeline
\* test only the existence of the row, as run_cleaning_pipeline does, and
\* go on to create_job whatever clean_path holds.
CallWithoutCleanGuard(p, kind, d) ==
    /\ procs[p].pc = "idle"
    /\ LET fresh == [IdleProc EXCEPT !.kind = kind, !.ds = d]
           row   == IF d \in DsIds THEN datasets[d] ELSE NoRow
       IN  procs' = [procs EXCEPT ![p] =
              IF ~row.exists
              THEN [fresh EXCEPT !.pc = "raised", !.err = "Dataset not found"]
              ELSE IF kind = "full"
              THEN [fresh EXCEPT !.pc = "load_raw"]
              ELSE [fresh EXCEPT !.pc = "create_job"]]
    /\ UNCHANGED <<datasets, jobs, fs, lastWrite, nonSvcVars>>

\* The entry of an invocation: the Dataset query and the guards before any
\* effect.  d ranges over ids with and without a row.
Call(p, kind, d) ==
    /\ procs[p].pc = "idle"
    /\ LET fresh == [IdleProc EXCEPT !.kind = kind, !.ds = d]
           row   == IF d \in DsIds THEN datasets[d] ELSE NoRow
       IN  procs' = [procs EXCEPT ![p] =
              IF ~row.exists
              THEN [fresh EXCEPT !.pc = "raised", !.err = "Dataset not found"]
              ELSE IF kind \in {"eda", "report"} /\ row.clean_path = NoPath
              THEN [fresh EXCEPT !.pc = "raised",
                                 !.err = "Dataset is not cleaned yet"]
              ELSE IF kind = "full"
              THEN [fresh EXCEPT !.pc = "load_raw"]
              ELSE [fresh EXCEPT !.pc = "create_job"]]
    /\ UNCHANGED <<datasets, jobs, fs, lastWrite, nonSvcVars>>

\* create_job
CreateJob(p) ==
    /\ procs[p].pc = "create_job"
    /\ jobs' = Append(jobs, NewJob(procs[p].ds, procs[p].kind))
    /\ procs' = [procs EXCEPT ![p].pc = "set_running", ![p].job = Len(jobs) + 1]
    /\ UNCHANGED <<datasets, fs, lastWrite, nonSvcVars>>

StartLog(kind) ==
    CASE kind = "cleaning" -> <<"Starting data cleaning.">>
      [] kind = "eda"      -> <<"Starting EDA.">>
      [] kind = "report"   -> <<"Starting report generation.">>

\* update_job_status(db, job, "running", log=...)
SetRunning(p) ==
    /\ procs[p].pc = "set_running"
    /\ jobs' = UpdateJobStatus(jobs, procs[p].job, "running",
                               StartLog(procs[p].kind), NoPath)
    /\ procs' = Goto(p, IF procs[p].kind = "cleaning" THEN "load_raw"
                        ELSE "load_clean")
    /\ UNCHANGED <<datasets, fs, lastWrite, nonSvcVars>>

\* load_dataset_raw(ds), and for the cleaning pipeline DataCleaningAgent.run
\* on the loaded table.
LoadRaw(p) ==
    /\ procs[p].pc = "load_raw"
    /\ LET loaded == LoadDatasetRaw(fs, datasets[procs[p].ds].raw_path)
       IN  procs' =
             IF ~loaded.ok THEN Raise(p, loaded.err)
             ELSE IF procs[p].kind = "cleaning"
             THEN [procs EXCEPT ![p].pc = "write_clean",
                                ![p].df = AgentClean(loaded.df),
                                ![p].stages = Append(@, "Cleaner")]
             ELSE [procs EXCEPT ![p].pc = "import_pipeline",
                                ![p].df = loaded.df]
    /\ UNCHANGED <<datasets, jobs, fs, lastWrite, nonSvcVars>>

\* Variant of WriteClean: the Dataset row is pointed at the cleaned file
\* before the file is written.
WriteCleanPathFirst(p) ==
    /\ procs[p].pc = "write_clean"
    /\ datasets' = [datasets EXCEPT
                       ![procs[p].ds].clean_path = CleanPath(procs[p].ds),
                       ![procs[p].ds].status = "cleaned"]
    /\ \/ /\ fs' = WriteFile(fs, CleanPath(procs[p].ds), procs[p].df)
          /\ lastWrite' = [lastWrite EXCEPT ![CleanPath(procs[p].ds)] =
                              [by |-> p, content |-> procs[p].df]]
          /\ procs' = Goto(p, "commit_ds")
       \/ /\ procs' = Raise(p, "OSError")
          /\ UNCHANGED <<fs, lastWrite>>
    /\ UNCHANGED <<jobs, nonSvcVars>>

\* Variant of WriteClean: an existing cleaned file is kept, not replaced.
WriteCleanKeepExisting(p) ==
    /\ procs[p].pc = "write_clean"
    /\ \/ /\ fs' = IF fs[CleanPath(procs[p].ds)] = NoFile
                   THEN WriteFile(fs, CleanPath(procs[p].ds), procs[p].df)
                   ELSE fs
          /\ lastWrite' = [lastWrite EXCEPT ![CleanPath(procs[p].ds)] =
                              [by |-> p, content |-> procs[p].df]]
          /\ procs' = Goto(p, "commit_ds")
       \/ /\ procs' = Raise(p, "OSError")
          /\ UNCHANGED <<fs, lastWrite>>
    /\ UNCHANGED <<datasets, jobs, nonSvcVars>>

\* clean_dir.mkdir; result.data.to_parquet(clean_path): the file is written,
\* or the storage raises and nothing of this invocation is undone.
WriteClean(p) ==
    /\ procs[p].pc = "write_clean"
    /\ \/ /\ fs' = WriteFile(fs, CleanPath(procs[p].ds), procs[p].df)
          /\ lastWrite' = [lastWrite EXCEPT ![CleanPath(procs[p].ds)] =
                              [by |-> p, content |-> procs[p].df]]
          /\ procs' = Goto(p, "commit_ds")
       \/ /\ procs' = Raise(p, "OSError")
          /\ UNCHANGED <<fs, lastWrite>>
    /\ UNCHANGED <<datasets, jobs, nonSvcVars>>

\* ds.clean_path = str(clean_path); ds.status = "cleaned"; db.commit()
CommitDataset(p) ==
    /\ procs[p].pc = "commit_ds"
    /\ datasets' = [datasets EXCEPT
                       ![procs[p].ds].clean_path = CleanPath(procs[p].ds),
                       ![procs[p].ds].status = "cleaned"]
    /\ procs' = [procs EXCEPT ![p].pc = "job_done", ![p].wroteDs = TRUE]
    /\ UNCHANGED <<jobs, fs, lastWrite, nonSvcVars>>

\* load_clean_dataset(ds)
LoadClean(p) ==
    /\ procs[p].pc = "load_clean"
    /\ LET path == datasets[procs[p].ds].clean_path
       IN  procs' =
             IF path = NoPath THEN Raise(p, "Dataset has not been cleaned yet.")
             ELSE IF fs[path] = NoFile
             THEN Raise(p, "Cleaned dataset file not found")
             ELSE [procs EXCEPT ![p].pc = "eda_run", ![p].df = fs[path]]
    /\ UNCHANGED <<datasets, jobs, fs, lastWrite, nonSvcVars>>

\* EDAAgent.run(df_clean, ds.id, eda_dir): the artifacts are written under
\* the dataset's directory, or creating the directory raises.
EdaRun(p) ==
    /\ procs[p].pc = "eda_run"
    /\ \/ /\ fs' = WriteFile(fs, EdaDir(procs[p].ds), EdaArtifacts(procs[p].df))
          /\ lastWrite' = [lastWrite EXCEPT ![EdaDir(procs[p].ds)] =
                              [by |-> p, content |-> EdaArtifacts(procs[p].df)]]
          /\ procs' = [procs EXCEPT
                          ![p].pc = IF procs[p].kind = "eda" THEN "job_done"
                                    ELSE "report_run",
                          ![p].stages = Append(@, "Profiler")]
       \/ /\ procs' = Raise(p, "OSError")
          /\ UNCHANGED <<fs, lastWrite>>
    /\ UNCHANGED <<datasets, jobs, nonSvcVars>>

\* Variant of ReportRun: the failing report step removes the cleaned file.
ReportRunRollback(p) ==
    /\ procs[p].pc = "report_run"
    /\ procs' = Raise(p, "AttributeError")
    /\ fs' = Unlink(fs, CleanPath(procs[p].ds))
    /\ UNCHANGED <<datasets, jobs, lastWrite, nonSvcVars>>

\* report_agent = ReportAgent(); report_agent.run(...): ReportAgent defines
\* __init__, generate_report and _build_plain_report, and no run.
ReportAgentMethods == {"__init__", "generate_report", "_build_plain_report"}

ReportRun(p) ==
    /\ procs[p].pc = "report_run"
    /\ "run" \notin ReportAgentMethods
    /\ procs' = Raise(p, "AttributeError")
    /\ UNCHANGED <<datasets, jobs, fs, lastWrite, nonSvcVars>>

\* update_job_status(db, job, status="done", ...) closing the cleaning and
\* the EDA pipeline.
JobDone(p) ==
    /\ procs[p].pc = "job_done"
    /\ jobs' = IF procs[p].kind = "cleaning"
               THEN UpdateJobStatus(jobs, procs[p].job, "done",
                        <<"Cleaning completed.">> \o AgentCleanLog(procs[p].df),
                        NoPath)
               ELSE UpdateJobStatus(jobs, procs[p].job, "done",
                        <<"EDA completed.">> \o EdaLog(procs[p].df),
                        EdaDir(procs[p].ds))
    /\ procs' = Goto(p, "returned")
    /\ UNCHANGED <<datasets, fs, lastWrite, nonSvcVars>>

\* run_full_pipeline_api, step 2: from ..pipeline.data_pipeline import
\* run_full_pipeline.  data_pipeline imports generate_report from
\* agents.report_agent, whose module-level names are these.
ReportAgentModuleNames == {"dedent", "Dict", "Any", "settings", "genai",
                           "ReportAgent"}

ImportPipeline(p) ==
    /\ procs[p].pc = "import_pipeline"
    /\ "generate_report" \notin ReportAgentModuleNames
    /\ procs' = Raise(p, "ImportError")
    /\ UNCHANGED <<datasets, jobs, fs, lastWrite, nonSvcVars>>

-----------------------------------------------------------------------------
Next ==
    \/ Upload
    \/ \E p \in Workers, kind \in Kinds, d \in 1..(MaxDs + 1) : Call(p, kind, d)
    \/ \E p \in Workers : CreateJob(p)
    \/ \E p \in Workers : SetRunning(p)
    \/ \E p \in Workers : LoadRaw(p)
    \/ \E p \in Workers : WriteClean(p)
    \/ \E p \in Workers : CommitDataset(p)
    \/ \E p \in Workers : LoadClean(p)
    \/ \E p \in Workers : EdaRun(p)
    \/ \E p \in Workers : ReportRun(p)
    \/ \E p \in Workers : JobDone(p)
    \/ \E p \in Workers : ImportPipeline(p)

Spec == Init /\ [][Next]_vars

-----------------------------------------------------------------------------
(* Text                                                                    *)

\* Provider text is a sequence of characters, a blank or a letter.
Chars == {" ", "x"}
Texts == UNION {[1..n -> Chars] : n \in 0..MaxTextLen}

RECURSIVE LStrip(_)
LStrip(t) == IF t # <<>> /\ Head(t) = " " THEN LStrip(Tail(t)) ELSE t

RECURSIVE RStrip(_)
RStrip(t) ==
    IF t # <<>> /\ t[Len(t)] = " " THEN RStrip(SubSeq(t, 1, Len(t) - 1)) ELSE t

StripLeadingOnly(t) == LStrip(t)

\* str.strip()
Strip(t) == RStrip(LStrip(t))

\* str.lower() on the provider names a deployment may configure
Lower(x) == IF x = "Gemini" THEN "gemini" ELSE x

TruthyUnlessNone(x) == x # NULL

\* Python truthiness of an optional string setting
Truthy(x) == x # NULL /\ x # ""

-----------------------------------------------------------------------------
(* agents.report_agent.ReportAgent                                         *)

FragmentKeys == <<"overview_markdown", "summary_stats_markdown",
                  "column_summary_markdown", "correlations_markdown",
                  "plots_markdown">>

SectionHeaders == <<"## Overview", "## Summary statistics",
                    "## Column-wise summary", "## Correlations",
                    "## Plots summary">>

\* An eda_results dict: per key, "absent" (no such key), NULL (the value None)
\* or the fragment's text.
FragmentText(i) == "fragment " \o FragmentKeys[i]
EdaResults ==
    {e \in [1..5 -> {"absent", NULL, "text"}] : TRUE}

\* eda_results.get(key, "")
G(e, i) == CASE e[i] = "absent" -> ""
             [] e[i] = NULL     -> NULL
             [] OTHER           -> FragmentText(i)

RECURSIVE Sections(_, _)
Sections(e, i) ==
    IF i > 5 THEN <<>>
    ELSE (IF i = 1 THEN <<>> ELSE <<"">>)
         \o <<SectionHeaders[i], G(e, i)>> \o Sections(e, i + 1)

IsNotNone(x) == x # NULL

\* _build_plain_report: the lines of the report
BuildPlainReport(dataset_name, e) ==
    SelectSeq(<<"# EDA Report for " \o dataset_name, "">> \o Sections(e, 1),
              IsNotNone)

NoteNotConfigured ==
    <<"", "[Note: Gemini not configured, showing plain EDA summary.]">>
NoteEmpty ==
    <<"", "[Gemini returned empty text, showing plain EDA summary.]">>
NoteFailed(e) == <<"", "[LLM (Gemini) call failed: " \o e \o "]">>

\* What gemini_model.generate_content(prompt) and reading response.text can
\* do: return text, return a response whose text is None or absent, or raise.
ProviderErrors == {"NotFound 404", "Unauthenticated", "ConnectionError",
                   "ValueError: response has no valid part",
                   "AttributeError: text is not a str"}

\* except Exception as e
CaughtOnlyProviderStatus(e) ==
    e \in {"NotFound 404", "Unauthenticated"}

Caught(e) == e \in ProviderErrors

\* ReportAgent.__init__
RA_Construct ==
    /\ target = "report"
    /\ agent.pc = "new"
    /\ LET provider == Lower(IF Truthy(settings.LLM_PROVIDER)
                             THEN settings.LLM_PROVIDER ELSE "none")
           model_name == IF Truthy(settings.LLM_MODEL) THEN settings.LLM_MODEL
                         ELSE "gemini-2.5-flash-lite"
           usable == /\ provider = "gemini"
                     /\ settings.genai
                     /\ Truthy(settings.GEMINI_API_KEY)
       IN  agent' = [agent EXCEPT
                        !.pc = "ready",
                        !.provider = provider,
                        !.model_name = model_name,
                        !.gemini_model = IF usable THEN model_name ELSE NULL]
    /\ UNCHANGED <<nonRepVars, settings, target, llm>>

\* generate_report up to the provider call: the plain report, and the
\* immediate return when no model is configured.
RA_GenerateReport(e) ==
    /\ target = "report"
    /\ agent.pc = "ready"
    /\ LET base_text == BuildPlainReport("ds", e)
       IN  agent' = IF agent.gemini_model = NULL
                    THEN [agent EXCEPT !.pc = "done", !.eda = e,
                                       !.result = base_text \o NoteNotConfigured]
                    ELSE [agent EXCEPT !.pc = "calling", !.eda = e]
    /\ UNCHANGED <<nonRepVars, settings, target, llm>>

\* The try block of generate_report: one generate_content call on the model
\* built in __init__, then the text checks, or the except clause.
RA_ProviderCall(out, text, exc) ==
    /\ target = "report"
    /\ agent.pc = "calling"
    /\ LET base_text == BuildPlainReport("ds", agent.eda)
           t == IF out = "text" THEN text ELSE <<>>
           called == [agent EXCEPT !.pc = "done",
                                   !.calls = Append(@, agent.gemini_model),
                                   !.out = out,
                                   !.text = t]
       IN  agent' =
             IF out = "raise"
             THEN IF Caught(exc)
                  THEN [called EXCEPT !.exc = exc,
                                      !.result = base_text \o NoteFailed(exc)]
                  ELSE [called EXCEPT !.exc = exc, !.raised = TRUE]
             ELSE IF Strip(t) = <<>>
                  THEN [called EXCEPT !.result = base_text \o NoteEmpty]
                  ELSE [called EXCEPT !.result = Strip(t)]
    /\ UNCHANGED <<nonRepVars, settings, target, llm>>

RA_Provider ==
    \/ \E text \in Texts : RA_ProviderCall("text", text, NULL)
    \/ RA_ProviderCall("none", <<>>, NULL)
    \/ \E exc \in ProviderErrors : RA_ProviderCall("raise", <<>>, exc)

-----------------------------------------------------------------------------
(* llm.gemini_client.GeminiRESTLLM                                         *)

RestDefaultModel == "gemini-pro"

\* HTTP status codes the provider answers with, and the outcomes of one
\* requests.post besides a response.
Statuses == {200, 404, 500}
Bodies == {"candidates with text", "no candidates", "not an object",
           "not json"}

\* get_gemini_llm
LLM_Construct ==
    /\ target = "llm"
    /\ llm.pc = "new"
    /\ llm' = [llm EXCEPT
                  !.pc = "ready",
                  !.model = IF Truthy(settings.LLM_MODEL)
                            THEN settings.LLM_MODEL ELSE RestDefaultModel,
                  !.api_key = settings.GEMINI_API_KEY]
    /\ UNCHANGED <<nonRepVars, settings, target, agent>>

\* _call up to the request: the key check
LLM_Call ==
    /\ target = "llm"
    /\ llm.pc = "ready"
    /\ llm' = IF ~Truthy(llm.api_key)
              THEN [llm EXCEPT !.pc = "raised", !.exc = "ValueError"]
              ELSE [llm EXCEPT !.pc = "post"]
    /\ UNCHANGED <<nonRepVars, settings, target, agent>>

\* Variant of NeedsFallback: retry whenever the first answer is not 200.
NeedsFallbackOnAnyError(status, model_name) ==
    status # 200 /\ model_name # RestDefaultModel

\* resp.status_code == 404 and model_name != "gemini-pro"
NeedsFallback(status, model_name) ==
    status = 404 /\ model_name # RestDefaultModel

\* _call_once_with_model: requests.post with the given model.  The request
\* is answered with a status, or raises (timeout, connection error).
LLM_Post(answered, status) ==
    /\ target = "llm"
    /\ llm.pc = "post"
    /\ LET sent == [llm EXCEPT !.requests = Append(@, llm.model)]
       IN  llm' =
             IF ~answered
             THEN [sent EXCEPT !.pc = "raised", !.exc = "ConnectionError"]
             ELSE IF NeedsFallback(status, llm.model)
             THEN [sent EXCEPT !.pc = "fallback_post",
                               !.statuses = Append(@, status)]
             ELSE IF status # 200
             THEN [sent EXCEPT !.pc = "raised", !.exc = "RuntimeError",
                               !.statuses = Append(@, status)]
             ELSE [sent EXCEPT !.pc = "parse", !.statuses = Append(@, status)]
    /\ UNCHANGED <<nonRepVars, settings, target, agent>>

\* The retry with 'gemini-pro'
LLM_FallbackPost(answered, status) ==
    /\ target = "llm"
    /\ llm.pc = "fallback_post"
    /\ LET sent == [llm EXCEPT !.requests = Append(@, "gemini-pro")]
       IN  llm' =
             IF ~answered
             THEN [sent EXCEPT !.pc = "raised", !.exc = "ConnectionError"]
             ELSE IF status # 200
             THEN [sent EXCEPT !.pc = "raised", !.exc = "RuntimeError",
                               !.statuses = Append(@, status)]
             ELSE [sent EXCEPT !.pc = "parse", !.statuses = Append(@, status)]
    /\ UNCHANGED <<nonRepVars, settings, target, agent>>

\* resp.json(), the walk over candidates[0].content.parts, the json.dumps
\* of the whole answer when no text was found, and _call's return.
LLM_Parse(body, text) ==
    /\ target = "llm"
    /\ llm.pc = "parse"
    /\ llm' =
         CASE body = "not json" ->
                [llm EXCEPT !.pc = "raised", !.exc = "JSONDecodeError",
                            !.body = body]
           [] body = "not an object" ->
                [llm EXCEPT !.pc = "raised", !.exc = "RuntimeError",
                            !.body = body]
           [] body = "no candidates" ->
                [llm EXCEPT !.pc = "returned", !.body = body,
                            !.text = <<"json.dumps(data)">>]
           [] OTHER ->
                [llm EXCEPT !.pc = "returned", !.body = body,
                            !.text = IF text = <<>> THEN <<"json.dumps(data)">>
                                     ELSE text]
    /\ UNCHANGED <<nonRepVars, settings, target, agent>>

-----------------------------------------------------------------------------
ProviderNames == {"none", "Gemini", "gemini", "openai", ""}
ModelNames    == {"gemini-2.5-flash-lite", "gemini-pro", "custom-model", ""}
ApiKeys       == {NULL, "", "key"}

InitReport ==
    /\ SvcInit
    /\ EdaQuiet
    /\ ClQuiet
    /\ settings \in [LLM_PROVIDER : ProviderNames, LLM_MODEL : ModelNames,
                     GEMINI_API_KEY : ApiKeys, genai : BOOLEAN]
    /\ target \in {"report", "llm"}
    /\ agent = NoAgent
    /\ llm = NoLlm

NextReport ==
    \/ RA_Construct
    \/ \E e \in EdaResults : RA_GenerateReport(e)
    \/ RA_Provider
    \/ LLM_Construct
    \/ LLM_Call
    \/ \E answered \in BOOLEAN, status \in Statuses : LLM_Post(answered, status)
    \/ \E answered \in BOOLEAN, status \in Statuses :
          LLM_FallbackPost(answered, status)
    \/ \E body \in Bodies, text \in Texts : LLM_Parse(body, text)

SpecReport == InitReport /\ [][NextReport]_vars

-----------------------------------------------------------------------------
(* agents.eda_agent.EDAAgent.run                                           *)

\* The charts one run renders, in order: the correlation matrix when there
\* are at least two numeric columns, one histogram per numeric column, the
\* missing-values chart.
RECURSIVE HistCharts(_, _)
HistCharts(i, n) ==
    IF i > n THEN <<>>
    ELSE <<(<<"hist">> \o NumColNames[i])>> \o HistCharts(i + 1, n)

Charts(n) ==
    (IF n > 1 THEN <<(<<"correlation_matrix">>)>> ELSE <<>>)
        \o HistCharts(1, n) \o <<(<<"missing_values">>)>>

\* output_dir / "<chart>.png"
PlotPath(ds, chart) == <<ds, chart>>

\* pyplot keeps its figures in one process-wide registry; the current figure
\* is the one added or activated last.
NewFigure == [draws |-> {}]
GcfOrNew(g) == IF g = <<>> THEN <<NewFigure>> ELSE g
DrawOnCurrent(g, what) ==
    LET h == GcfOrNew(g)
    IN  [h EXCEPT ![Len(h)].draws = @ \cup {what}]
CloseCurrent(g) == IF g = <<>> THEN g ELSE SubSeq(g, 1, Len(g) - 1)

ChartLog(chart) ==
    CASE chart[1] = "correlation_matrix" -> <<"Saved correlation matrix heatmap.">>
      [] chart[1] = "hist"               -> <<"Saved histogram for">> \o Tail(chart)
      [] OTHER                           -> <<"Saved missing value barplot.">>

\* output_dir.mkdir, describe(), isna().sum(), select_dtypes and the branch
\* on the number of numeric columns.
EA_Start(t) ==
    /\ eda[t].pc = "start"
    /\ eda[t].ds # 0
    /\ \/ eda' = [eda EXCEPT
                     ![t].pc = "figure",
                     ![t].log = <<(<<"Generated summary statistics.">>),
                                  (<<"Computed missing value counts.">>)>>
                                \o (IF eda[t].num > 1 THEN <<>>
                                    ELSE <<(<<"Not enough numeric columns for correlation matrix.">>)>>)]
       \/ eda' = [eda EXCEPT ![t].pc = "raised", ![t].err = "OSError: mkdir"]
    /\ UNCHANGED <<nonEdaVars, gcf, plots>>

CurrentChart(t) == Charts(eda[t].num)[eda[t].idx]

\* The chart's path and plt.figure(figsize=...)
EA_Figure(t) ==
    /\ eda[t].pc = "figure"
    /\ gcf' = Append(gcf, NewFigure)
    /\ LET chart == CurrentChart(t)
           path  == PlotPath(eda[t].ds, chart)
       IN  eda' = [eda EXCEPT
                      ![t].pc = "draw",
                      ![t].corr_path =
                          IF chart[1] = "correlation_matrix" THEN path ELSE @,
                      ![t].missing_plot =
                          IF chart[1] = "missing_values" THEN path ELSE @]
    /\ UNCHANGED <<nonEdaVars, plots>>

\* plt.imshow / plt.hist / plt.bar and the title, ticks and layout calls:
\* they act on pyplot's current figure.
EA_Draw(t) ==
    /\ eda[t].pc = "draw"
    /\ gcf' = DrawOnCurrent(gcf, <<eda[t].ds, CurrentChart(t)>>)
    /\ eda' = [eda EXCEPT ![t].pc = "save"]
    /\ UNCHANGED <<nonEdaVars, plots>>

\* output_dir / f"hist_{col}.png" lies in a directory that does not exist
\* when the column name holds a path separator.
InMissingDirectory(t) ==
    eda[t].sep /\ CurrentChart(t) = <<"hist">> \o NumColNames[1]

\* plt.savefig(path): the current figure is written to the path, or the
\* write raises.
EA_Savefig(t) ==
    /\ eda[t].pc = "save"
    /\ \/ /\ ~InMissingDirectory(t)
          /\ gcf' = GcfOrNew(gcf)
          /\ plots' = [plots EXCEPT
                          ![PlotPath(eda[t].ds, CurrentChart(t))] =
                              GcfOrNew(gcf)[Len(GcfOrNew(gcf))].draws]
          /\ eda' = [eda EXCEPT ![t].pc = "close"]
       \/ /\ ~InMissingDirectory(t)
          /\ eda' = [eda EXCEPT ![t].pc = "raised", ![t].err = "OSError: savefig"]
          /\ UNCHANGED <<gcf, plots>>
       \/ /\ InMissingDirectory(t)
          /\ eda' = [eda EXCEPT ![t].pc = "raised", ![t].err = "FileNotFoundError"]
          /\ UNCHANGED <<gcf, plots>>
    /\ UNCHANGED nonEdaVars

\* plt.close(), the bookkeeping after a chart, and the return after the last
EA_Close(t) ==
    /\ eda[t].pc = "close"
    /\ gcf' = CloseCurrent(gcf)
    /\ LET chart == CurrentChart(t)
           path  == PlotPath(eda[t].ds, chart)
           last  == eda[t].idx = Len(Charts(eda[t].num))
       IN  eda' = [eda EXCEPT
                      ![t].pc = IF last THEN "done" ELSE "figure",
                      ![t].idx = IF last THEN @ ELSE @ + 1,
                      ![t].log = Append(@, ChartLog(chart)),
                      ![t].hist_paths =
                          IF chart[1] = "hist" THEN Append(@, path) ELSE @]
    /\ UNCHANGED <<nonEdaVars, plots>>

\* Thread t profiles dataset t, a table with some number of numeric columns.
InitEda ==
    /\ SvcInit
    /\ RepQuiet
    /\ ClQuiet
    /\ \E n \in [EdaThreads -> 0..MaxNumCols], sep \in [EdaThreads -> BOOLEAN] :
          /\ n[1] + n[2] <= MaxNumCols
          /\ \A t \in EdaThreads : sep[t] => n[t] >= 1
          /\ eda = [t \in EdaThreads |->
                       [NoEda EXCEPT !.ds = t, !.num = n[t], !.sep = sep[t]]]
    /\ gcf = <<>>
    /\ plots = [k \in EdaThreads \X AllCharts |-> {}]

NextEda ==
    \/ \E t \in EdaThreads : EA_Start(t)
    \/ \E t \in EdaThreads : EA_Figure(t)
    \/ \E t \in EdaThreads : EA_Draw(t)
    \/ \E t \in EdaThreads : EA_Savefig(t)
    \/ \E t \in EdaThreads : EA_Close(t)

SpecEda == InitEda /\ [][NextEda]_vars

-----------------------------------------------------------------------------
(* The tables handed to the cleaners, and the pandas operations used       *)

\* Column names: strings over a small alphabet, integers (a table read
\* without a header row) or timestamps (a sheet whose header cells are
\* dates).  v is the text of the name, for a name that is not a string the
\* text str() gives.
ColumnNames ==
    <<[kind |-> "str", v |-> <<"a">>],
      [kind |-> "str", v |-> <<" ", "A">>],
      [kind |-> "str", v |-> <<"a", " ", "A">>],
      [kind |-> "int", v |-> <<"0">>],
      [kind |-> "datetime", v |-> <<"2024-01-01", " ", "00:00:00">>]>>

\* The headers of a table: two different names
ColumnLists ==
    {<<ColumnNames[i], ColumnNames[j]>> :
        <<i, j>> \in {p \in (1..Len(ColumnNames)) \X (1..Len(ColumnNames)) : p[1] < p[2]}}

\* Two columns: the first holds numbers (dtype float64, or object when the
\* table was built from Python values), the second holds text.
NumberCells(dtype) == {Num(1, 1), Num(2, 1), IF dtype = "float64" THEN NaN ELSE None}
TextCells == {Str("x"), Str("y"), None}

RowCells(dtype) == {<<a, b>> : a \in NumberCells(dtype), b \in TextCells}

IsNa(v) == v.k \in {"nan", "none"}

Column(rows, c) == [i \in 1..Len(rows) |-> rows[i][c]]

\* DataFrame.duplicated(): a row is a duplicate when an earlier row equals it
\* in every column; missing values compare equal to each other.
Duplicated(rows, i) == \E j \in 1..(i - 1) : rows[j] = rows[i]
DuplicatedSum(rows) == Cardinality({i \in 1..Len(rows) : Duplicated(rows, i)})

\* DataFrame.drop_duplicates(): keep="first"
RECURSIVE KeepFirstFrom(_, _)
KeepFirstFrom(rows, i) ==
    IF i > Len(rows) THEN <<>>
    ELSE (IF Duplicated(rows, i) THEN <<>> ELSE <<rows[i]>>)
         \o KeepFirstFrom(rows, i + 1)
DropDuplicates(rows) == KeepFirstFrom(rows, 1)

\* Series.isna().sum()
MissingCount(col) == Cardinality({i \in 1..Len(col) : IsNa(col[i])})

RECURSIVE Gcd(_, _)
Gcd(a, b) == IF b = 0 THEN a ELSE Gcd(b, a % b)

RECURSIVE SumN(_, _)
SumN(col, i) ==
    IF i > Len(col) THEN 0
    ELSE (IF IsNa(col[i]) THEN 0 ELSE col[i].n) + SumN(col, i + 1)

\* Series.mean() of a float64 column of whole numbers and NaN: the mean of
\* the values present, NaN when there is none.
Mean(col) ==
    LET cnt == Len(col) - MissingCount(col)
        sum == SumN(col, 1)
        g   == Gcd(sum, cnt)
    IN  IF cnt = 0 THEN NaN ELSE Num(sum \div g, cnt \div g)

\* Series.mode(dropna=True): the most frequent values present, sorted; the
\* code takes the first.
Count(col, v) == Cardinality({i \in 1..Len(col) : col[i] = v})
Modes(col) ==
    {v \in {col[i] : i \in 1..Len(col)} :
        /\ ~IsNa(v)
        /\ \A j \in 1..Len(col) : IsNa(col[j]) \/ Count(col, col[j]) <= Count(col, v)}
SortsBefore(u, v) ==
    IF u.k = "num" THEN u.n * v.d <= v.n * u.d
    ELSE (u.s = "x" \/ v.s = "y")
FirstMode(col) == CHOOSE v \in Modes(col) : \A w \in Modes(col) : SortsBefore(v, w)

\* Series.fillna(value) on column c
FillNa(rows, c, value) ==
    [i \in 1..Len(rows) |->
        [rows[i] EXCEPT ![c] = IF IsNa(@) THEN value ELSE @]]

\* pd.api.types.is_numeric_dtype
IsNumericDtype(dtype) == dtype = "float64"

\* DataFrame.infer_objects(): an object column holding only numbers and
\* None becomes float64 and its None become NaN.
InferObjectsDtype(dtype, col) ==
    IF /\ dtype = "object"
       /\ \A i \in 1..Len(col) : col[i].k \in {"num", "none"}
       /\ \E j \in 1..Len(col) : col[j].k = "num"
    THEN "float64" ELSE dtype

InferObjects(df) ==
    LET dt == [c \in 1..Len(df.dtypes) |->
                  InferObjectsDtype(df.dtypes[c], Column(df.rows, c))]
    IN  [df EXCEPT
            !.dtypes = dt,
            !.rows = [i \in 1..Len(df.rows) |->
                         [c \in 1..Len(df.dtypes) |->
                             IF dt[c] = "float64" /\ df.rows[i][c] = None
                             THEN NaN ELSE df.rows[i][c]]]]

-----------------------------------------------------------------------------
(* agents.cleaning_tool.run_cleaning                                       *)

\* A log line: its text, and the column, count and value it cites.
LogEntry(msg, col, count, value) ==
    [msg |-> msg, col |-> col, count |-> count, value |-> value]

\* The loop body over one column: mean for a numeric dtype, the first mode
\* otherwise, and a column without a mode is left as it is.
RC_FillColumn(st, dtypes, c) ==
    LET col     == Column(st.rows, c)
        missing == MissingCount(col)
    IN  IF missing = 0 THEN st
        ELSE IF IsNumericDtype(dtypes[c])
        THEN [rows |-> FillNa(st.rows, c, Mean(col)),
              log  |-> Append(st.log,
                          LogEntry("Filled missing values in numeric column with mean",
                                   c, missing, Mean(col)))]
        ELSE IF Modes(col) # {}
        THEN [rows |-> FillNa(st.rows, c, FirstMode(col)),
              log  |-> Append(st.log,
                          LogEntry("Filled missing values in categorical column with mode",
                                   c, missing, FirstMode(col)))]
        ELSE [rows |-> st.rows,
              log  |-> Append(st.log,
                          LogEntry("Column has missing values but no mode; left as-is.",
                                   c, 0, None))]

RECURSIVE RC_FillColumns(_, _, _)
RC_FillColumns(st, dtypes, c) ==
    IF c > Len(dtypes) THEN st
    ELSE RC_FillColumns(RC_FillColumn(st, dtypes, c), dtypes, c + 1)

\* The shape line and the duplicate step.
RC_DropDuplicates ==
    /\ cl.pc = "start"
    /\ cl.cleaner = "run_cleaning"
    /\ LET duplicates == DuplicatedSum(cl.df.rows)
           shape == LogEntry("Initial shape", 0, Len(cl.df.rows), None)
       IN  cl' = [cl EXCEPT
                     !.pc = "fill",
                     !.df.rows = IF duplicates > 0 THEN DropDuplicates(@) ELSE @,
                     !.log = <<shape,
                               IF duplicates > 0
                               THEN LogEntry("Dropped duplicate rows", 0, duplicates, None)
                               ELSE LogEntry("No duplicate rows found.", 0, 0, None)>>]
    /\ UNCHANGED <<nonClVars, cleanOut>>

\* The loop over the columns.
RC_FillMissing ==
    /\ cl.pc = "fill"
    /\ cl.cleaner = "run_cleaning"
    /\ LET st == RC_FillColumns([rows |-> cl.df.rows, log |-> cl.log],
                                cl.df.dtypes, 1)
       IN  cl' = [cl EXCEPT !.pc = "save", !.df.rows = st.rows, !.log = st.log]
    /\ UNCHANGED <<nonClVars, cleanOut>>

\* mkdir, to_parquet and the return; either of the two file operations may
\* raise.
RC_Save ==
    /\ cl.pc = "save"
    /\ \/ /\ cleanOut' = [cleanOut EXCEPT ![cl.dataset_id] = cl.df]
          /\ cl' = [cl EXCEPT
                       !.pc = "done",
                       !.log = Append(@, LogEntry("Saved cleaned dataset", 0, 0, None))]
       \/ /\ cl' = [cl EXCEPT !.pc = "raised", !.err = "OSError"]
          /\ UNCHANGED cleanOut
    /\ UNCHANGED nonClVars

-----------------------------------------------------------------------------
(* agents.data_cleaning_agent.DataCleaningAgent.run                        *)

\* str.lower() and str.replace(" ", "_") on a column name
LowerChar(c) == IF c = "A" THEN "a" ELSE c
LowerName(t) == [i \in 1..Len(t) |-> LowerChar(t[i])]
ReplaceSpaces(t) == [i \in 1..Len(t) |-> IF t[i] = " " THEN "_" ELSE t[i]]

\* c.strip().lower().replace(" ", "_") for a string, str(c) otherwise
NormalizeName(c) ==
    IF c.kind = "str"
    THEN [kind |-> "str", v |-> ReplaceSpaces(LowerName(Strip(c.v)))]
    ELSE [kind |-> "str", v |-> c.v]

NormalizeColumns(columns) == [i \in 1..Len(columns) |-> NormalizeName(columns[i])]

\* The loop body over one column: no entry for a column without missing
\* values, mean for a numeric dtype, the first mode or "UNKNOWN" otherwise.
DCA_FillColumn(st, dtypes, c) ==
    LET col           == Column(st.rows, c)
        missing_count == MissingCount(col)
    IN  IF missing_count = 0 THEN st
        ELSE IF IsNumericDtype(dtypes[c])
        THEN [rows |-> FillNa(st.rows, c, Mean(col)),
              log  |-> Append(st.log,
                          LogEntry("Filled missing values in numeric column with mean",
                                   c, missing_count, Mean(col)))]
        ELSE IF Modes(col) # {}
        THEN [rows |-> FillNa(st.rows, c, FirstMode(col)),
              log  |-> Append(st.log,
                          LogEntry("Filled missing values in categorical column with mode",
                                   c, missing_count, FirstMode(col)))]
        ELSE [rows |-> FillNa(st.rows, c, Str("UNKNOWN")),
              log  |-> Append(st.log,
                          LogEntry("Filled missing values with 'UNKNOWN' (no mode available).",
                                   c, missing_count, Str("UNKNOWN")))]

RECURSIVE DCA_FillColumns(_, _, _)
DCA_FillColumns(st, dtypes, c) ==
    IF c > Len(dtypes) THEN st
    ELSE DCA_FillColumns(DCA_FillColumn(st, dtypes, c), dtypes, c + 1)

\* 1. Normalize column names
DCA_NormalizeColumns ==
    /\ cl.pc = "start"
    /\ cl.cleaner = "DataCleaningAgent"
    /\ LET new_cols == NormalizeColumns(cl.df.columns)
       IN  cl' = [cl EXCEPT
                     !.pc = "infer",
                     !.df.columns = new_cols,
                     !.log = IF cl.df.columns # new_cols
                             THEN Append(@, LogEntry("Normalized column names", 0, 0, None))
                             ELSE @]
    /\ UNCHANGED <<nonClVars, cleanOut>>

\* 2. Infer better dtypes
DCA_InferObjects ==
    /\ cl.pc = "infer"
    /\ LET after == InferObjects(cl.df)
       IN  cl' = [cl EXCEPT
                     !.pc = "fill",
                     !.df = after,
                     !.log = IF cl.df.dtypes # after.dtypes
                             THEN Append(@, LogEntry("Inferred dtypes.", 0, 0, None))
                             ELSE @]
    /\ UNCHANGED <<nonClVars, cleanOut>>

\* 3. Handle missing values.  When two columns carry the same name,
\* df_clean[col] is a frame, its missing count a Series, and the test
\* "missing_count == 0" raises ValueError.
DistinctNames(columns) ==
    \A i, j \in 1..Len(columns) : columns[i] = columns[j] => i = j

DCA_FillMissing ==
    /\ cl.pc = "fill"
    /\ cl.cleaner = "DataCleaningAgent"
    /\ IF DistinctNames(cl.df.columns)
       THEN LET st == DCA_FillColumns([rows |-> cl.df.rows, log |-> cl.log],
                                      cl.df.dtypes, 1)
            IN  cl' = [cl EXCEPT !.pc = "metadata", !.df.rows = st.rows,
                                 !.log = st.log]
       ELSE cl' = [cl EXCEPT !.pc = "raised", !.err = "ValueError"]
    /\ UNCHANGED <<nonClVars, cleanOut>>

\* 4. The metadata summary and the return
DCA_Return ==
    /\ cl.pc = "metadata"
    /\ cl' = [cl EXCEPT
                 !.pc = "done",
                 !.metadata = [rows_before |-> Len(cl.input.rows),
                               rows_after  |-> Len(cl.df.rows),
                               cols        |-> Len(cl.df.columns)]]
    /\ UNCHANGED <<nonClVars, cleanOut>>

\* Every table of at most MaxRows rows, with two differently named columns,
\* handed to one of the two cleaners.
Cleaners == {"run_cleaning", "DataCleaningAgent"}

InitClean ==
    /\ SvcInit
    /\ RepQuiet
    /\ EdaQuiet
    /\ cleanOut = [i \in DsIds |-> NoTable]
    /\ \E c \in Cleaners, columns \in ColumnLists, dt \in {"float64", "object"},
          n \in 0..MaxRows :
          \E rows \in [1..n -> RowCells(dt)] :
             LET t == [columns |-> columns, dtypes |-> <<dt, "object">>,
                       rows |-> rows]
             IN  cl = [NoCl EXCEPT !.pc = "start", !.cleaner = c,
                                   !.dataset_id = 1, !.input = t, !.df = t]

NextClean ==
    \/ RC_DropDuplicates
    \/ RC_FillMissing
    \/ RC_Save
    \/ DCA_NormalizeColumns
    \/ DCA_InferObjects
    \/ DCA_FillMissing
    \/ DCA_Return

SpecClean == InitClean /\ [][NextClean]_vars

-----------------------------------------------------------------------------
(* Claims on the service layer (Spec)                                      *)

InFlight(p) == procs[p].pc \notin {"idle", "returned", "raised"}

WorkerStep(p) ==
    \/ CreateJob(p) \/ SetRunning(p) \/ LoadRaw(p) \/ WriteClean(p)
    \/ CommitDataset(p) \/ LoadClean(p) \/ EdaRun(p) \/ ReportRun(p)
    \/ JobDone(p) \/ ImportPipeline(p)

\* C1: once an invocation of run_cleaning_pipeline, run_eda_pipeline or
\* run_report_pipeline has ended, by returning or by raising, the job it
\* created is in a terminal status (done or failed).
C1_JobTerminalAfterEnd ==
    \A p \in Workers :
        (Ended(p) /\ procs[p].job # 0)
            => jobs[procs[p].job].status \in {"done", "failed"}

\* C4: an upload_dataset call that is rejected (no Dataset row is added)
\* leaves the files under the raw directory as they were before the call.
C4_FailedUploadNoPartialState ==
    [][(Upload /\ datasets' = datasets) => fs' = fs]_vars

\* C5: a Dataset row whose clean_path is set names dataset_<id>_clean.parquet
\* and that file has been written; an invocation that raised has not written
\* clean_path or status of the Dataset row.
C5_CleanPathOnlyOnSuccess ==
    /\ \A d \in DsIds :
          (datasets[d].exists /\ datasets[d].clean_path # NoPath)
              => /\ datasets[d].clean_path = CleanPath(d)
                 /\ fs[CleanPath(d)] # NoFile
                 /\ datasets[d].status = "cleaned"
    /\ \A d \in DsIds :
          (datasets[d].exists /\ datasets[d].clean_path = NoPath)
              => datasets[d].status = "uploaded"
    /\ \A p \in Workers : procs[p].pc = "raised" => ~procs[p].wroteDs

\* A cleaning invocation raised while writing the cleaned file, and another
\* one cleaned a dataset successfully.
C5_Witness ==
    /\ \E p \in Workers :
          procs[p].kind = "cleaning" /\ procs[p].pc = "raised"
              /\ procs[p].err = "OSError"
    /\ \E d \in DsIds : datasets[d].exists /\ datasets[d].clean_path # NoPath

\* C6: a run_full_pipeline_api call whose raw table was loaded runs the
\* stages in the order Cleaner, Profiler, Report Generator: when it has
\* ended, the Cleaner is the first stage it ran.
C6_StagesInOrder ==
    \A p \in Workers :
        (procs[p].kind = "full" /\ Ended(p) /\ procs[p].df # NoFile)
            => /\ procs[p].stages # <<>>
               /\ procs[p].stages[1] = "Cleaner"

SameDatasetCleanings(p, q) ==
    /\ p # q
    /\ procs[p].kind = "cleaning" /\ procs[q].kind = "cleaning"
    /\ procs[p].ds = procs[q].ds

C19_UploadsKeepRawFiles ==
    /\ [](\A d \in UsedIds : fs[datasets[d].raw_path] # NoFile)
    /\ [][Upload =>
            \A d \in UsedIds :
                fs'[datasets[d].raw_path] = fs[datasets[d].raw_path]]_vars

\* C20 speaks of Datasets in status pipeline_complete.  The only assignment
\* of that status follows the import of pipeline.data_pipeline in
\* run_full_pipeline_api, which raises: no Dataset ever has the status and
\* no Job of type full_pipeline is ever created.
PipelineCompleteUnreachable ==
    /\ \A d \in DsIds : datasets[d].status # "pipeline_complete"
    /\ \A j \in 1..Len(jobs) : jobs[j].type # "full_pipeline"
    /\ \A p \in Workers :
          (procs[p].kind = "full" /\ Ended(p)) => procs[p].pc = "raised"

\* The Dataset row an invocation for id d finds, NoRow when there is none.
RowOf(d) == IF d \in DsIds THEN datasets[d] ELSE NoRow

\* An invocation of run_eda_pipeline or run_report_pipeline that starts on
\* an id without a row or on a row whose clean_path is NULL.
StartsUncleaned(p) ==
    /\ procs[p].pc = "idle" /\ procs'[p].pc # "idle"
    /\ procs'[p].kind \in {"eda", "report"}
    /\ (~RowOf(procs'[p].ds).exists \/ RowOf(procs'[p].ds).clean_path = NoPath)

\* C21: run_eda_pipeline and run_report_pipeline called for a dataset that
\* does not exist or whose clean_path is NULL raise before any effect (no
\* Job row is created, no Dataset field changes, no file is written), and
\* every eda or report Job in the ledger belongs to a Dataset that has a
\* cleaned file path.
C21_GuardsBeforeEffects ==
    /\ [](\A j \in 1..Len(jobs) :
            jobs[j].type \in {"eda", "report"}
                => /\ jobs[j].dataset_id \in UsedIds
                   /\ datasets[jobs[j].dataset_id].clean_path # NoPath)
    /\ [][\A p \in Workers :
            StartsUncleaned(p)
                => /\ procs'[p].pc = "raised"
                   /\ procs'[p].err \in {"Dataset not found",
                                         "Dataset is not cleaned yet"}
                   /\ jobs' = jobs /\ datasets' = datasets /\ fs' = fs]_vars

\* Both guards have fired: one worker was refused on a registered Dataset
\* that is not cleaned, the other on an id without a row, and the ledger is
\* empty and the only files are the raw files of the uploads.
C21_Witness ==
    \E p, q \in Workers :
        /\ procs[p].kind = "eda" /\ procs[p].pc = "raised"
        /\ procs[p].err = "Dataset is not cleaned yet"
        /\ procs[p].ds \in UsedIds
        /\ datasets[procs[p].ds].clean_path = NoPath
        /\ datasets[procs[p].ds].status = "uploaded"
        /\ procs[q].kind = "report" /\ procs[q].pc = "raised"
        /\ procs[q].err = "Dataset not found"
        /\ procs[q].ds \notin UsedIds
        /\ jobs = <<>>
        /\ \A d \in DsIds : fs[CleanPath(d)] = NoFile /\ fs[EdaDir(d)] = NoFile

IsPrefix(s, t) == Len(s) <= Len(t) /\ SubSeq(t, 1, Len(s)) = s

\* Job.status: pending, running, done, failed (models/job.py), in the order
\* of a job's life; done and failed are both final.
StatusRank(status) ==
    CASE status = "pending" -> 0
      [] status = "running" -> 1
      [] status \in {"done", "failed"} -> 2

\* Arguments of update_job_status: any status, a log text or none, a path
\* or none.
StatusArgs == {"pending", "running", "done", "failed"}
LogArgs    == {<<>>, <<"line">>, <<"line", "line">>}
PathArgs   == {NoPath} \cup {EdaDir(d) : d \in DsIds}

\* C22: under update_job_status the previous log of a job is a prefix of
\* its new log (a given text is appended after the lines already there, an
\* absent log argument leaves the log as it was) and an update that passes
\* no path keeps the report_path; over a job's life the ledger only grows,
\* a row keeps its dataset and type, its log only grows, a report_path once
\* set stays set, and its status only moves forward along pending, running,
\* done/failed.
C22_LedgerAppendOnlyForward ==
    /\ [](\A j \in 1..Len(jobs) :
            \A status \in StatusArgs, log \in LogArgs, path \in PathArgs :
                LET new == UpdateJobRow(jobs[j], status, log, path)
                IN  /\ IsPrefix(jobs[j].log, new.log)
                    /\ new.log = jobs[j].log \o log
                    /\ (log = <<>> => new.log = jobs[j].log)
                    /\ (path = NoPath
                          => new.report_path = jobs[j].report_path)
                    /\ (path # NoPath => new.report_path = path))
    /\ [][/\ Len(jobs') >= Len(jobs)
          /\ \A j \in 1..Len(jobs) :
                /\ jobs'[j].dataset_id = jobs[j].dataset_id
                /\ jobs'[j].type = jobs[j].type
                /\ IsPrefix(jobs[j].log, jobs'[j].log)
                /\ (jobs[j].report_path # NoPath
                      => jobs'[j].report_path = jobs[j].report_path)
                /\ StatusRank(jobs'[j].status) >= StatusRank(jobs[j].status)
                /\ (jobs'[j].status # jobs[j].status
                      => Len(jobs'[j].log) > Len(jobs[j].log))]_vars

\* An eda Job has gone through its whole life: it is done, its log holds
\* the line of create_job, then the line of the running update, then the
\* lines of the done update, and its report_path is the EDA directory.
C22_Witness ==
    \E j \in 1..Len(jobs) :
        /\ jobs[j].type = "eda" /\ jobs[j].status = "done"
        /\ jobs[j].report_path = EdaDir(jobs[j].dataset_id)
        /\ Len(jobs[j].log) >= 3
        /\ SubSeq(jobs[j].log, 1, 3) =
              <<"Job created.", "Starting EDA.", "EDA completed.">>

-----------------------------------------------------------------------------
(* Claims on the report agent and the REST client (SpecReport)             *)

\* C2: generate_report never raises and returns a non-empty string in every
\* provider state; when the provider call raised, the result is the plain
\* report followed by the annotation carrying the error message.
C2_NeverRaisesNonEmpty ==
    agent.pc = "done" =>
        /\ ~agent.raised
        /\ agent.result # <<>>
        /\ agent.out = "raise" =>
              agent.result = BuildPlainReport("ds", agent.eda)
                                 \o NoteFailed(agent.exc)
        /\ agent.gemini_model = NULL =>
              agent.result = BuildPlainReport("ds", agent.eda)
                                 \o NoteNotConfigured

\* The provider was configured and the call failed on the network.
C2_Witness ==
    /\ agent.pc = "done"
    /\ agent.gemini_model # NULL
    /\ agent.out = "raise"
    /\ agent.exc = "ConnectionError"
    /\ agent.result # <<>>

LlmEnded == llm.pc \in {"returned", "raised"}

NotConfigured ==
    \/ settings.LLM_PROVIDER \notin {"gemini", "Gemini"}
    \/ settings.GEMINI_API_KEY \in {NULL, ""}

\* The lines of a report from the header of section i up to the next
\* header, or up to the end, that are not blank.
HeaderAt(r, i) == CHOOSE k \in 1..Len(r) : r[k] = SectionHeaders[i]
SectionBody(r, i) ==
    LET from == HeaderAt(r, i) + 1
        to   == IF i < 5 THEN HeaderAt(r, i + 1) - 1 ELSE Len(r)
        NotBlank(x) == x # ""
    IN  SelectSeq(SubSeq(r, from, to), NotBlank)

\* C17: without a provider, or with the provider named but no credentials,
\* generate_report returns without a provider call the deterministic
\* report followed by the note that the provider is not configured: every
\* section header is there once, in order, the body of a section is its
\* fragment and is empty when the fragment is missing.
C17_NotConfiguredPath ==
    (agent.pc = "done" /\ NotConfigured) =>
        /\ agent.calls = <<>>
        /\ ~agent.raised
        /\ Len(agent.result) > 2
        /\ SubSeq(agent.result, Len(agent.result) - 1, Len(agent.result))
              = NoteNotConfigured
        /\ LET r == SubSeq(agent.result, 1, Len(agent.result) - 2)
           IN  \A i \in 1..5 :
                  /\ Cardinality({k \in 1..Len(r) : r[k] = SectionHeaders[i]}) = 1
                  /\ i < 5 => HeaderAt(r, i) < HeaderAt(r, i + 1)
                  /\ SectionBody(r, i) =
                        IF agent.eda[i] = "text" THEN <<FragmentText(i)>> ELSE <<>>

\* Gemini is named, the key is missing, and a report with a missing and a
\* null fragment has been returned.
C17_Witness ==
    /\ agent.pc = "done"
    /\ agent.provider = "gemini"
    /\ settings.GEMINI_API_KEY = NULL
    /\ agent.eda[1] = "absent" /\ agent.eda[2] = NULL /\ agent.eda[3] = "text"
    /\ agent.calls = <<>>

Spaces(n) == [i \in 1..n |-> " "]

\* C18: when the provider call returned, the result is the provider's text
\* without its leading and trailing whitespace if anything is left, and
\* otherwise (empty, whitespace only, or no text) the deterministic report
\* followed by the note that the provider returned empty text; the result
\* is never empty or whitespace only.
C18_TrimmedOrEmptyNote ==
    (agent.pc = "done" /\ agent.out \in {"text", "none"}) =>
        /\ ~agent.raised
        /\ \E k \in 1..Len(agent.result) : agent.result[k] \notin {"", " "}
        /\ IF \E k \in 1..Len(agent.text) : agent.text[k] # " "
           THEN /\ agent.result[1] # " "
                /\ agent.result[Len(agent.result)] # " "
                /\ \E i, j \in 0..Len(agent.text) :
                      agent.text = Spaces(i) \o agent.result \o Spaces(j)
           ELSE agent.result = BuildPlainReport("ds", agent.eda) \o NoteEmpty

\* The provider answered with text that ends in whitespace.
C18_Witness ==
    /\ agent.pc = "done"
    /\ agent.out = "text"
    /\ agent.text = <<"x", " ">>
    /\ agent.result = <<"x">>

-----------------------------------------------------------------------------
(* Claims on the profiler (SpecEda)                                        *)

\* C8: two invocations for different dataset identifiers are independent
\* under any interleaving: when an invocation is done, each image file it
\* wrote holds what the invocation draws when it runs alone, the one chart
\* of its own dataset.
C8_IndependentArtifacts ==
    \A t \in EdaThreads :
        eda[t].pc = "done" =>
            \A i \in 1..Len(Charts(eda[t].num)) :
                LET chart == Charts(eda[t].num)[i]
                IN  plots[PlotPath(eda[t].ds, chart)] = {<<eda[t].ds, chart>>}

\* C15: a failure while rendering one chart is isolated: EDAAgent.run raises
\* only when its output directory cannot be created.
C15_ChartFailureIsolated ==
    \A t \in EdaThreads :
        eda[t].pc = "raised" => eda[t].err = "OSError: mkdir"

\* The log of a run that rendered every chart of a table with n numeric
\* columns.
ExpectedLog(n) ==
    <<(<<"Generated summary statistics.">>),
      (<<"Computed missing value counts.">>),
      (IF n > 1 THEN <<"Saved correlation matrix heatmap.">>
       ELSE <<"Not enough numeric columns for correlation matrix.">>)>>
        \o [i \in 1..n |-> <<"Saved histogram for">> \o NumColNames[i]]
        \o <<(<<"Saved missing value barplot.">>)>>

\* C16: for every table EDAAgent.run returns without raising unless a file
\* operation fails for a reason outside the table, and it returns a correlation-matrix path exactly
\* when the table has two numeric columns or more (null otherwise, the skip
\* logged), one histogram path hist_<column>.png per numeric column, one
\* missing-values chart, and the log in the order summary statistics,
\* missing counts, correlation, histograms in column order, missing-values
\* chart.
C16_ArtifactsAndLogOrder ==
    \A t \in EdaThreads :
        /\ eda[t].pc = "raised" =>
              eda[t].err \in {"OSError: mkdir", "OSError: savefig"}
        /\ eda[t].pc = "done" =>
              /\ (eda[t].corr_path # NoPath) <=> (eda[t].num > 1)
              /\ eda[t].corr_path # NoPath =>
                    eda[t].corr_path = PlotPath(eda[t].ds, <<"correlation_matrix">>)
              /\ eda[t].hist_paths =
                    [i \in 1..eda[t].num |->
                        PlotPath(eda[t].ds, <<"hist">> \o NumColNames[i])]
              /\ eda[t].missing_plot = PlotPath(eda[t].ds, <<"missing_values">>)
              /\ eda[t].log = ExpectedLog(eda[t].num)

-----------------------------------------------------------------------------
(* Claims on the cleaners (SpecClean)                                      *)

DedupLogged(log, removed) ==
    IF removed > 0
    THEN \E i \in 1..Len(log) :
            log[i].msg = "Dropped duplicate rows" /\ log[i].count = removed
    ELSE \E i \in 1..Len(log) : log[i].msg = "No duplicate rows found."

\* C10: when a cleaner (run_cleaning or DataCleaningAgent.run) has returned,
\* the rows it returns are the first occurrences of the distinct input rows,
\* one per input row that has no equal earlier row, and its log states the
\* number of rows removed, or that no duplicates were found.
C10_DuplicatesRemoved ==
    cl.pc = "done" =>
        /\ Len(cl.df.rows) = Len(DropDuplicates(cl.input.rows))
        /\ DedupLogged(cl.log, DuplicatedSum(cl.input.rows))

\* The table a cleaner fills: run_cleaning fills what is left after the
\* duplicate step, DataCleaningAgent.run what infer_objects returns.
PreFill ==
    IF cl.cleaner = "run_cleaning"
    THEN [cl.input EXCEPT !.rows = DropDuplicates(@)]
    ELSE InferObjects(cl.input)

PreviouslyMissing(c) ==
    {i \in 1..Len(PreFill.rows) : IsNa(PreFill.rows[i][c])}

\* C11: when a cleaner has returned, a numeric column that had at least one
\* missing value holds no missing value, and every cell that was missing
\* holds the mean of the values the column had before filling; this
\* includes the column whose values were all missing.
C11_NumericMeanFill ==
    cl.pc = "done" =>
        \A c \in 1..Len(PreFill.dtypes) :
            (IsNumericDtype(PreFill.dtypes[c]) /\ PreviouslyMissing(c) # {}) =>
                /\ MissingCount(Column(cl.df.rows, c)) = 0
                /\ \A i \in PreviouslyMissing(c) :
                      cl.df.rows[i][c] = Mean(Column(PreFill.rows, c))

\* C12: when a cleaner has returned, in a non-numeric column that had
\* missing values every cell that was missing holds the first of the most
\* frequent values the column had before filling, and the text "UNKNOWN"
\* when the column had no value at all.
C12_ModeOrUnknownFill ==
    cl.pc = "done" =>
        \A c \in 1..Len(PreFill.dtypes) :
            (~IsNumericDtype(PreFill.dtypes[c]) /\ PreviouslyMissing(c) # {}) =>
                LET col == Column(PreFill.rows, c)
                IN  \A i \in PreviouslyMissing(c) :
                       cl.df.rows[i][c] =
                           IF Modes(col) # {} THEN FirstMode(col) ELSE Str("UNKNOWN")

\* C13: normalization is idempotent: the names DataCleaningAgent.run has
\* normalized are left as they are by a second normalization.
C13_NormalizationIdempotent ==
    (cl.cleaner = "DataCleaningAgent" /\ cl.pc # "start") =>
        NormalizeColumns(cl.df.columns) = cl.df.columns

\* C14: after the normalization step of DataCleaningAgent.run the column
\* names are pairwise distinct whenever the original names were.
C14_NormalizedNamesDistinct ==
    (cl.cleaner = "DataCleaningAgent" /\ cl.pc # "start"
        /\ DistinctNames(cl.input.columns)) =>
        DistinctNames(cl.df.columns)

====
